---- MODULE Spec2Model ----
(***************************************************************************)
(* Model of utils.RateLimitClient (src/utils/rate_limit.go): the adaptive  *)
(* rate-limiting HTTP client.  Several callers run Do concurrently on one   *)
(* client.  Every statement of Do and of the helpers it calls is a step of  *)
(* the calling goroutine; the mutex rl.mu, the clock and the transport are  *)
(* explicit.                                                                *)
(*                                                                          *)
(* Time is counted in ticks, Second ticks to the second.  A time.Time is an *)
(* integer number of ticks since the start of the run; the zero time.Time   *)
(* is the distinguished value ZeroTime.  The statements of Do take no time: *)
(* the clock advances only while every caller is between two calls, asleep, *)
(* waiting for the transport or waiting for the mutex.  A sleep lasts at    *)
(* least its duration, a round trip of the transport any time.              *)
(*                                                                          *)
(* Header values are strings, kept as sequences of one-character strings so *)
(* that strconv.Atoi and strings.TrimSpace are computed.                    *)
(*                                                                          *)
(* Spec is the client shared by NumCallers concurrent callers; SpecSeq is   *)
(* the same client used by one caller, one call after the other, for more   *)
(* calls.  SpecCtx is SpecSeq with requests whose context can become done.  *)
(* SpecLive is Spec with the fairness of the scheduler, of the transport    *)
(* and of the clock.  SpecFn runs updateRateLimitTracking and getWaitTime   *)
(* on their own, from every state of the fields they read.                  *)
(*                                                                          *)
(* SpecWide runs the exponential branch of getWaitTime with the product at  *)
(* the width of time.Duration, an int64 of nanoseconds.                     *)
(*                                                                          *)
(* SpecMain is doRequestWithRetry of src/main.go, which does not use the    *)
(* client.  SpecLimit is applyRateLimit of src/main.go on one configured    *)
(* limit, with the fairness of the program's steps and of the clock.        *)
(***************************************************************************)
EXTENDS Integers, Sequences, FiniteSets, TLC

\* ------------------------------------------------------------------ bounds
\* callers sharing the client, Do calls started on it, ticks of the clock,
\* largest configured MaxRetries, Do calls of the single-caller runs,
\* ticks to the second, largest attempt index getWaitTime is given
NumCallers == 2
MaxCalls == 2
MaxTime == 4
MaxRetriesBound == 1
MaxSeqCalls == 4
Second == 2
MaxAttemptIndex == 7
\* the largest MaxRetries of the runs of getWaitTime at the width of int64
MaxShift == 64

\* ------------------------------------------------------- program constants
Hour == 3600 * Second
Minute == 60 * Second
BaseBackoff == 1 * Second
ZeroTime == 0 - 1000000
maxAttempts == 5

Callers == 1..NumCallers
NoOne == 0

VARIABLES
    \* what rl.Client, the transport the client is configured with, is:
    \* "any" server, or a "throttling" one that answers every request with a
    \* 429 without Retry-After
    transport,
    \* fields of RateLimitClient
    MaxRetries, mu, Limit, Remaining, ResetTime,
    AutoRateMode, DynamicRate, SafeRate, LastRequest,
    \* the clock (time.Now)
    now,
    \* per caller: position in Do, locals of Do, outcome
    pc, attempt, resp, wait, wakeAt, result,
    \* number of Do calls started on the client
    calls,
    \* history, per caller: outcome of every dispatch of the current call,
    \* and whether applyDynamicWait ran since the call's last dispatch
    hist, paced,
    \* history, global: the time of the last dispatch if SafeRate was locked
    \* then, whether every response so far was plain, and the number of
    \* completed adjustDynamicRate calls as long as that is so
    lastDispatch, plainOnly, nAdjusted,
    \* history, per caller: whether updateRateLimitTracking found a rate-limit
    \* header in the response whose adjustDynamicRate call is still to come
    declared,
    \* per caller: whether the context of the caller's requests is done (its
    \* deadline has passed or it was cancelled)
    ctxDone,
    \* doRequestWithRetry of main.go: position, the loop variable attempt, the
    \* errors recorded so far, what it returned
    mainPc, mainAttempt, errors, mainResult,
    \* per caller: the time.Duration getWaitTime's exponential branch returned,
    \* in nanoseconds at its own width
    waitNanos,
    \* main.go: the configured limits (at most one, matching the URL of the
    \* request), each with its Value, Type and Count and with Age, the time
    \* since its ResetTime, kept up to one tick past its window;
    \* applyRateLimit: position, and the rest of its time.Sleep
    rateLimits, applyPc, sleepLeft

clientVars == <<transport, MaxRetries, mu, Limit, Remaining, ResetTime,
                AutoRateMode, DynamicRate, SafeRate, LastRequest>>
callVars == <<pc, attempt, resp, wait, wakeAt, result, calls>>
histVars == <<hist, paced, lastDispatch, plainOnly, nAdjusted, declared>>
mainVars == <<mainPc, mainAttempt, errors, mainResult>>
limitVars == <<rateLimits, applyPc, sleepLeft>>
vars == <<clientVars, now, callVars, histVars, ctxDone, mainVars, waitNanos, limitVars>>

\* ----------------------------------------------------------------- strings
Digits == {"0", "1", "2", "3", "4", "5", "6", "7", "8", "9"}

DigitVal(ch) ==
    CASE ch = "0" -> 0 [] ch = "1" -> 1 [] ch = "2" -> 2 [] ch = "3" -> 3
      [] ch = "4" -> 4 [] ch = "5" -> 5 [] ch = "6" -> 6 [] ch = "7" -> 7
      [] ch = "8" -> 8 [] ch = "9" -> 9

RECURSIVE DigitsVal(_)
DigitsVal(s) ==
    IF s = <<>> THEN 0
    ELSE 10 * DigitsVal(SubSeq(s, 1, Len(s) - 1)) + DigitVal(s[Len(s)])

Unsigned(s) == IF s # <<>> /\ Head(s) \in {"+", "-"} THEN Tail(s) ELSE s

\* strconv.Atoi / strconv.ParseInt(s, 10, 64): err == nil
AtoiOk(s) ==
    /\ Unsigned(s) # <<>>
    /\ \A i \in 1..Len(Unsigned(s)) : Unsigned(s)[i] \in Digits

\* strconv.Atoi / strconv.ParseInt(s, 10, 64): the value
AtoiVal(s) ==
    IF Head(s) = "-" THEN 0 - DigitsVal(Unsigned(s)) ELSE DigitsVal(Unsigned(s))

RECURSIVE TrimLeft(_)
TrimLeft(s) == IF s # <<>> /\ Head(s) = " " THEN TrimLeft(Tail(s)) ELSE s

RECURSIVE TrimRight(_)
TrimRight(s) ==
    IF s # <<>> /\ s[Len(s)] = " " THEN TrimRight(SubSeq(s, 1, Len(s) - 1)) ELSE s

\* strings.TrimSpace
TrimSpace(s) == TrimRight(TrimLeft(s))

RECURSIVE DigitPrefix(_)
DigitPrefix(s) ==
    IF s # <<>> /\ Head(s) \in Digits THEN <<Head(s)>> \o DigitPrefix(Tail(s)) ELSE <<>>

\* v := 0; fmt.Sscanf(s, "%d", &v), the error dropped: the value of v.  The
\* verb reads a sign and the digits that follow it, and stores nothing when
\* there is no digit
SscanfInt(s) ==
    LET d == DigitPrefix(Unsigned(s))
    IN  IF d = <<>> THEN 0
        ELSE IF Head(s) = "-" THEN 0 - DigitsVal(d) ELSE DigitsVal(d)

\* time.Unix(ts, 0)
Unix(ts) == ts * Second

\* An HTTP-date is modelled as "@" followed by the seconds since the start
\* of the run; http.ParseTime accepts exactly those.
ParseTimeOk(s) == s # <<>> /\ Head(s) = "@" /\ AtoiOk(Tail(s)) /\ Tail(s)[1] \in Digits
ParseTimeVal(s) == Unix(AtoiVal(Tail(s)))

\* ---------------------------------------------------- the transport's answers
NoHeader == <<>>
StatusTooManyRequests == 429

\* the X-RateLimit-Limit, -Remaining and -Reset headers of a response
RateHeaders ==
    { [XLimit |-> NoHeader, XRemaining |-> NoHeader, XReset |-> NoHeader],
      [XLimit |-> <<"2">>,  XRemaining |-> <<"1">>,  XReset |-> <<"2">>],
      [XLimit |-> <<"2">>,  XRemaining |-> <<"0">>,  XReset |-> <<"2">>],
      [XLimit |-> NoHeader, XRemaining |-> <<"0">>,  XReset |-> <<"1">>],
      [XLimit |-> <<"x">>,  XRemaining |-> NoHeader, XReset |-> <<"1", "s">>] }

\* the Retry-After header of a 429
RetryAfterHeaders == {NoHeader, <<"1">>, <<"0">>, <<"@", "1">>}

Response(status, h, retryAfter) ==
    [StatusCode |-> status, XLimit |-> h.XLimit, XRemaining |-> h.XRemaining,
     XReset |-> h.XReset, RetryAfter |-> retryAfter]

Responses ==
    {Response(st, h, NoHeader) : st \in {200, 500}, h \in RateHeaders}
    \cup {Response(429, h, ra) : h \in RateHeaders, ra \in RetryAfterHeaders}

\* the answers of a server that throttles every request
ThrottlingResponses ==
    {r \in Responses : r.StatusCode = StatusTooManyRequests /\ r.RetryAfter = NoHeader}

Transports == {"any", "throttling"}

\* the answers of a server that says little: 200, or 429 with or without an
\* exhausted window or a Retry-After
ShortResponses ==
    { Response(200, [XLimit |-> NoHeader, XRemaining |-> NoHeader, XReset |-> NoHeader],
               NoHeader),
      Response(429, [XLimit |-> NoHeader, XRemaining |-> NoHeader, XReset |-> NoHeader],
               NoHeader),
      Response(429, [XLimit |-> <<"2">>, XRemaining |-> <<"0">>, XReset |-> <<"2">>],
               NoHeader),
      Response(429, [XLimit |-> NoHeader, XRemaining |-> NoHeader, XReset |-> NoHeader],
               <<"1">>) }

\* what a transport can answer
Answers(t) ==
    IF t = "throttling" THEN ThrottlingResponses
    ELSE IF t = "short" THEN ShortResponses
    ELSE Responses

NoResp ==
    [StatusCode |-> 0, XLimit |-> NoHeader, XRemaining |-> NoHeader,
     XReset |-> NoHeader, RetryAfter |-> NoHeader]

\* outcomes of a dispatch other than a status: none yet, a transport error
Pending == NoResp.StatusCode
TransportError == 0 - 1

\* the response once its rate-limit headers have been read
Ingested(r) == [r EXCEPT !.XLimit = NoHeader, !.XRemaining = NoHeader, !.XReset = NoHeader]

NoDispatch == 0 - 1


\* ------------------------------------------------- the helpers' computations
\* mustWaitBeforeNext, at time t
MustWait(limit, remaining, reset, t) ==
    IF limit = 0 THEN FALSE
    ELSE IF remaining > 0 THEN FALSE
    ELSE IF reset = ZeroTime THEN FALSE
    ELSE t < reset

\* whether updateRateLimitTracking finds a header that parses
FoundHeader(r) == AtoiOk(r.XLimit) \/ AtoiOk(r.XRemaining) \/ AtoiOk(r.XReset)

\* mutant: a response without headers does not switch discovery on
Tracked_KeepsMode(r, limit, remaining, reset, auto, safe) ==
    [Limit |-> IF AtoiOk(r.XLimit) THEN AtoiVal(r.XLimit) ELSE limit,
     Remaining |-> IF AtoiOk(r.XRemaining) THEN AtoiVal(r.XRemaining) ELSE remaining,
     ResetTime |-> IF AtoiOk(r.XReset) THEN Unix(AtoiVal(r.XReset)) ELSE reset,
     AutoRateMode |-> IF FoundHeader(r) THEN FALSE ELSE auto]

\* mutant: a malformed header ends the ingestion, the headers after it are
\* not read
Tracked_StopsAtMalformed(r, limit, remaining, reset, auto, safe) ==
    LET bad(h) == h # NoHeader /\ ~AtoiOk(h)
        readsRemaining == ~bad(r.XLimit)
        readsReset == ~bad(r.XLimit) /\ ~bad(r.XRemaining)
    IN  [Limit |-> IF AtoiOk(r.XLimit) THEN AtoiVal(r.XLimit) ELSE limit,
         Remaining |-> IF readsRemaining /\ AtoiOk(r.XRemaining)
                       THEN AtoiVal(r.XRemaining) ELSE remaining,
         ResetTime |-> IF readsReset /\ AtoiOk(r.XReset)
                       THEN Unix(AtoiVal(r.XReset)) ELSE reset,
         AutoRateMode |-> IF FoundHeader(r) THEN FALSE
                          ELSE IF safe = 0 THEN TRUE ELSE auto]

\* updateRateLimitTracking: the fields after ingesting response r
Tracked(r, limit, remaining, reset, auto, safe) ==
    [Limit |-> IF AtoiOk(r.XLimit) THEN AtoiVal(r.XLimit) ELSE limit,
     Remaining |-> IF AtoiOk(r.XRemaining) THEN AtoiVal(r.XRemaining) ELSE remaining,
     ResetTime |-> IF AtoiOk(r.XReset) THEN Unix(AtoiVal(r.XReset)) ELSE reset,
     AutoRateMode |-> IF FoundHeader(r) THEN FALSE
                      ELSE IF safe = 0 THEN TRUE ELSE auto]

\* mutant: a 429 lowers a safe rate that is already locked
Adjusted_Relocks(hit429, dyn, safe, auto) ==
    IF safe > 0 /\ ~hit429 THEN
        [DynamicRate |-> safe, SafeRate |-> safe, AutoRateMode |-> FALSE]
    ELSE IF safe = 0 /\ ~auto THEN
        [DynamicRate |-> dyn, SafeRate |-> safe, AutoRateMode |-> auto]
    ELSE IF hit429 THEN
        LET newSafe == IF dyn - 1 < 1 THEN 1 ELSE dyn - 1
        IN  [DynamicRate |-> newSafe, SafeRate |-> newSafe, AutoRateMode |-> auto]
    ELSE
        [DynamicRate |-> dyn + 1, SafeRate |-> safe, AutoRateMode |-> auto]

\* adjustDynamicRate: the fields after the adjustment
Adjusted(hit429, dyn, safe, auto) ==
    IF safe > 0 THEN
        [DynamicRate |-> safe, SafeRate |-> safe, AutoRateMode |-> FALSE]
    ELSE IF ~auto THEN
        [DynamicRate |-> dyn, SafeRate |-> safe, AutoRateMode |-> auto]
    ELSE IF hit429 THEN
        LET newSafe == IF dyn - 1 < 1 THEN 1 ELSE dyn - 1
        IN  [DynamicRate |-> newSafe, SafeRate |-> newSafe, AutoRateMode |-> auto]
    ELSE
        [DynamicRate |-> dyn + 1, SafeRate |-> safe, AutoRateMode |-> auto]

RECURSIVE Pow2(_)
\* 1 << n
Pow2(n) == IF n = 0 THEN 1 ELSE 2 * Pow2(n - 1)

\* ------------------------------------------------- time.Duration arithmetic
\* A time.Duration is an int64 count of nanoseconds.  Where the width
\* matters it is kept as its two's complement representation: Limbs digits
\* of LimbBits bits, the least significant first.
Limbs == 8
LimbBits == 8
LimbBase == Pow2(LimbBits)

RECURSIVE LimbsOf(_, _)
\* the k low digits of the natural number n
LimbsOf(n, k) ==
    IF k = 0 THEN <<>> ELSE <<n % LimbBase>> \o LimbsOf(n \div LimbBase, k - 1)

\* time.Duration(n), for a constant 0 <= n < 2^31
Duration(n) == LimbsOf(n, Limbs)

\* x << n, n >= 0: whole digits first, then the bits within a digit; the
\* bits shifted past bit 63 are lost
Shl(x, n) ==
    LET q == n \div LimbBits
        r == n % LimbBits
        digit(i) == IF i >= 1 THEN x[i] ELSE 0
    IN  [i \in 1..Limbs |->
            ((digit(i - q) * Pow2(r)) % LimbBase)
                + (digit(i - q - 1) \div Pow2(LimbBits - r))]

RECURSIVE Column(_, _, _, _)
\* the sum of the digit products x[i] * y[k + 1 - i], i = 1..j
Column(x, y, k, j) ==
    IF j = 0 THEN 0 ELSE x[j] * y[k + 1 - j] + Column(x, y, k, j - 1)

RECURSIVE MulFrom(_, _, _, _)
MulFrom(x, y, k, carry) ==
    IF k > Limbs THEN <<>>
    ELSE LET sum == carry + Column(x, y, k, k)
         IN  <<sum % LimbBase>> \o MulFrom(x, y, k + 1, sum \div LimbBase)

\* x * y, the low 64 bits of the product
Mul(x, y) == MulFrom(x, y, 1, 0)

\* x < 0
Negative(x) == x[Limbs] >= LimbBase \div 2

RECURSIVE Above(_, _, _)
\* x > y as unsigned numbers, looking at the digits from k down
Above(x, y, k) ==
    IF k = 0 THEN FALSE
    ELSE IF x[k] # y[k] THEN x[k] > y[k]
    ELSE Above(x, y, k - 1)

\* x > y
Greater(x, y) ==
    IF Negative(x) # Negative(y) THEN Negative(y) ELSE Above(x, y, Limbs)

\* x > 0
Positive(x) == ~Negative(x) /\ x # Duration(0)

RECURSIVE DivFrom(_, _, _, _)
DivFrom(x, d, k, rem) ==
    IF k = 0 THEN <<>>
    ELSE LET cur == rem * LimbBase + x[k]
         IN  DivFrom(x, d, k - 1, cur % d) \o <<cur \div d>>

\* x / d for x >= 0 and a constant 0 < d < 2^23
DivBy(x, d) == DivFrom(x, d, Limbs, 0)

\* the value of x, for 0 <= x < 2^31
ValueOf(x) ==
    x[1] + LimbBase * (x[2] + LimbBase * (x[3] + LimbBase * x[4]))

\* time.Second and 2 * time.Minute, in nanoseconds
SecondNanos == Duration(1000000000)
TwoMinutes == Mul(Duration(2 * 60), SecondNanos)

\* rl.BaseBackoff, as NewRateLimitClient sets it
BaseBackoffNanos == Mul(Duration(1), SecondNanos)

\* getWaitTime without Retry-After and with SafeRate = 0, at the width of
\* time.Duration: rl.BaseBackoff * time.Duration(1<<attempt), capped where it
\* compares greater than two minutes
WaitNanos(att) ==
    LET w == Mul(BaseBackoffNanos, Shl(Duration(1), att))
    IN  IF Greater(w, TwoMinutes) THEN TwoMinutes ELSE w

\* the ticks time.Sleep(d) sleeps: it returns at once when d <= 0
SleepTicks(d) ==
    IF Positive(d)
    THEN (ValueOf(DivBy(DivBy(DivBy(d, 1000), 1000), 1000)) * Second)
    ELSE 0


\* mutant: the exponential backoff is not capped
Backoff_Uncapped(att, safe) ==
    IF safe > 0 THEN 1 * Second ELSE BaseBackoff * Pow2(att)

\* getWaitTime, the branch without a usable Retry-After
Backoff(att, safe) ==
    IF safe > 0 THEN 1 * Second
    ELSE LET w == BaseBackoff * Pow2(att)
         IN  IF w > 2 * Minute THEN 2 * Minute ELSE w

\* mutant: a locked safe rate takes precedence over Retry-After
WaitTime_LockedFirst(r, att, safe, t) ==
    IF safe > 0 THEN 1 * Second
    ELSE IF r.RetryAfter # NoHeader /\ AtoiOk(TrimSpace(r.RetryAfter)) THEN
        LET d == AtoiVal(TrimSpace(r.RetryAfter)) * Second
        IN  IF d <= 0 THEN BaseBackoff ELSE d
    ELSE IF r.RetryAfter # NoHeader /\ ParseTimeOk(r.RetryAfter) THEN
        LET d == ParseTimeVal(r.RetryAfter) - t
        IN  IF d <= 0 THEN BaseBackoff ELSE d
    ELSE Backoff(att, safe)

\* getWaitTime, at time t
WaitTime(r, att, safe, t) ==
    IF r.RetryAfter # NoHeader /\ AtoiOk(TrimSpace(r.RetryAfter)) THEN
        LET d == AtoiVal(TrimSpace(r.RetryAfter)) * Second
        IN  IF d <= 0 THEN BaseBackoff ELSE d
    ELSE IF r.RetryAfter # NoHeader /\ ParseTimeOk(r.RetryAfter) THEN
        LET d == ParseTimeVal(r.RetryAfter) - t
        IN  IF d <= 0 THEN BaseBackoff ELSE d
    ELSE Backoff(att, safe)

\* applyDynamicWait: the minimum interval between requests
MinInterval(dyn, safe) ==
    LET picked == IF safe > 0 THEN safe ELSE dyn
        currentRate == IF picked <= 0 THEN 1 ELSE picked
    IN  Second \div currentRate

\* mutant: the loop stops one attempt early
LoopContinues_OffByOne(att, maxRetries) == att < maxRetries

\* the loop condition of Do
LoopContinues(att, maxRetries) == att <= maxRetries

\* mutant: every status from 429 up is retried
Throttled_AnyError(status) == status >= StatusTooManyRequests

\* Do: the status that makes the loop go on instead of returning the response
Throttled(status) == status = StatusTooManyRequests

\* ---------------------------------------------------------------- the state
\* main has not called doRequestWithRetry, and no limit is configured
MainNotStarted ==
    /\ mainPc = "idle" /\ mainAttempt = 0
    /\ errors = <<>> /\ mainResult = "none"
    /\ rateLimits = <<>> /\ applyPc = "idle" /\ sleepLeft = 0

TypeOK ==
    /\ transport \in Transports \cup {"short"}
    /\ MaxRetries \in 0..MaxRetriesBound \cup {MaxAttemptIndex} \cup 0..MaxShift
    /\ mu \in Callers \cup {NoOne}
    /\ Limit \in Int /\ Remaining \in Int /\ ResetTime \in Int
    /\ AutoRateMode \in BOOLEAN
    /\ DynamicRate \in Int /\ SafeRate \in Int /\ LastRequest \in Int
    /\ now \in Nat
    /\ calls \in 0..MaxSeqCalls

\* NewRateLimitClient, and callers that have not called Do yet
Fresh ==
    /\ MaxRetries \in 0..MaxRetriesBound
    /\ mu = NoOne
    /\ Limit = 0 /\ Remaining = 0 /\ ResetTime = ZeroTime
    /\ AutoRateMode = FALSE
    /\ DynamicRate = 1 /\ SafeRate = 0
    /\ now = 0
    /\ LastRequest = now - 1 * Hour
    /\ pc = [c \in Callers |-> "idle"]
    /\ attempt = [c \in Callers |-> 0]
    /\ resp = [c \in Callers |-> NoResp]
    /\ wait = [c \in Callers |-> 0]
    /\ wakeAt = [c \in Callers |-> 0]
    /\ result = [c \in Callers |-> "none"]
    /\ calls = 0
    /\ hist = [c \in Callers |-> <<>>]
    /\ paced = [c \in Callers |-> FALSE]
    /\ lastDispatch = NoDispatch
    /\ plainOnly = TRUE /\ nAdjusted = 0
    /\ declared = [c \in Callers |-> FALSE]
    /\ ctxDone = [c \in Callers |-> FALSE]
    /\ MainNotStarted
    /\ waitNanos = [c \in Callers |-> Duration(0)]

Init ==
    /\ transport \in Transports
    /\ Fresh

\* a step of a caller of Do: it moves to label; main.go is not involved
Goto(c, label) ==
    /\ pc' = [pc EXCEPT ![c] = label]
    /\ UNCHANGED <<ctxDone, mainVars, waitNanos, limitVars>>

\* rl.mu.Lock() returns: the caller goes on with the function's body
Lock(c, body) ==
    /\ mu = NoOne
    /\ mu' = c
    /\ Goto(c, body)
    /\ UNCHANGED <<transport, MaxRetries, Limit, Remaining, ResetTime, AutoRateMode,
                   DynamicRate, SafeRate, LastRequest, now,
                   attempt, resp, wait, wakeAt, result, calls, histVars>>

\* A caller that is not running: it is between two calls, asleep, waiting
\* for the transport's answer or waiting for the mutex.
Waiting(c) ==
    \/ pc[c] \in {"idle", "recv"}
    \/ pc[c] \in {"adwSleep", "gateSleep", "boSleep"} /\ now < wakeAt[c]
    \/ pc[c] \in {"adwLock", "gateLock", "updLock", "adjLock", "lrLock", "gwLock"}
       /\ mu # NoOne

\* time passes: a tick is half a second, the statements of Do take no time
Tick ==
    /\ now < MaxTime
    /\ \A c \in Callers : Waiting(c)
    /\ now' = now + 1
    /\ UNCHANGED <<clientVars, callVars, histVars, ctxDone, mainVars, waitNanos, limitVars>>

\* a caller enters Do; at most n calls are started on the client
StartDoUpTo(c, n) ==
    /\ pc[c] = "idle"
    /\ calls < n
    /\ calls' = calls + 1
    /\ Goto(c, "adwLock")
    /\ UNCHANGED <<clientVars, now, attempt, resp, wait, wakeAt, result, histVars>>

StartDo(c) ==
    /\ calls < MaxCalls
    /\ StartDoUpTo(c, MaxCalls)

\* the single caller of the sequential runs enters Do
StartDoSeq(c) ==
    /\ calls < MaxSeqCalls
    /\ StartDoUpTo(c, MaxSeqCalls)

\* applyDynamicWait
AdwLock(c) ==
    /\ pc[c] = "adwLock"
    /\ Lock(c, "adwBody")

AdwBody(c) ==
    /\ pc[c] = "adwBody"
    /\ LET minInterval == MinInterval(DynamicRate, SafeRate)
           elapsed == now - LastRequest
       IN  IF elapsed < minInterval
           THEN /\ wakeAt' = [wakeAt EXCEPT ![c] = now + (minInterval - elapsed)]
                /\ Goto(c, "adwSleep")
           ELSE /\ Goto(c, "adwStore")
                /\ UNCHANGED wakeAt
    /\ UNCHANGED <<clientVars, now, attempt, resp, wait, result, calls, histVars>>

\* time.Sleep returns: the caller goes on at label to
Wake(c, to) ==
    /\ now >= wakeAt[c]
    /\ Goto(c, to)
    /\ wakeAt' = [wakeAt EXCEPT ![c] = 0]
    /\ wait' = [wait EXCEPT ![c] = 0]
    /\ UNCHANGED <<clientVars, now, attempt, resp, result, calls, histVars>>

AdwWake(c) ==
    /\ pc[c] = "adwSleep"
    /\ Wake(c, "adwStore")

\* mutant: applyDynamicWait returns without unlocking rl.mu
AdwStore_KeepsLock(c) ==
    /\ pc[c] = "adwStore"
    /\ LastRequest' = now
    /\ paced' = [paced EXCEPT ![c] = TRUE]
    /\ Goto(c, "gateLock")
    /\ UNCHANGED <<transport, MaxRetries, mu, Limit, Remaining, ResetTime, AutoRateMode,
                   DynamicRate, SafeRate, now, attempt, resp, wait, wakeAt,
                   result, calls, hist, lastDispatch, plainOnly, nAdjusted, declared>>

AdwStore(c) ==
    /\ pc[c] = "adwStore"
    /\ LastRequest' = now
    /\ mu' = NoOne
    /\ paced' = [paced EXCEPT ![c] = TRUE]
    /\ Goto(c, "gateLock")
    /\ UNCHANGED <<transport, MaxRetries, Limit, Remaining, ResetTime, AutoRateMode,
                   DynamicRate, SafeRate, now, attempt, resp, wait, wakeAt,
                   result, calls, hist, lastDispatch, plainOnly, nAdjusted, declared>>

\* mustWaitBeforeNext
GateLock(c) ==
    /\ pc[c] = "gateLock"
    /\ Lock(c, "gateBody")

GateBody(c) ==
    /\ pc[c] = "gateBody"
    /\ mu' = NoOne
    /\ IF MustWait(Limit, Remaining, ResetTime, now)
       THEN Goto(c, "gateRead") ELSE Goto(c, "loop")
    /\ UNCHANGED <<transport, MaxRetries, Limit, Remaining, ResetTime, AutoRateMode,
                   DynamicRate, SafeRate, LastRequest, now,
                   attempt, resp, wait, wakeAt, result, calls, histVars>>

\* the values an unlocked read of rl.ResetTime can return: the field, or the
\* value another caller is storing into it at this moment
RacyResetTime ==
    {ResetTime} \cup
    {Unix(AtoiVal(resp[d].XReset)) :
        d \in {e \in Callers : pc[e] = "updBody" /\ AtoiOk(resp[e].XReset)}}

\* Do: wait := time.Until(rl.ResetTime), at least one second; time.Sleep(wait)
GateRead(c) ==
    /\ pc[c] = "gateRead"
    /\ \E rt \in RacyResetTime :
         LET until == rt - now
             w == IF until < Second THEN Second ELSE until
         IN  /\ wait' = [wait EXCEPT ![c] = w]
             /\ wakeAt' = [wakeAt EXCEPT ![c] = now + w]
    /\ Goto(c, "gateSleep")
    /\ UNCHANGED <<clientVars, now, attempt, resp, result, calls, histVars>>

GateWake(c) ==
    /\ pc[c] = "gateSleep"
    /\ Wake(c, "loop")


\* Do, the loop: attempt <= rl.MaxRetries, then rl.Client.Do(req) is sent
Dispatch(c) ==
    /\ pc[c] = "loop"
    /\ LoopContinues(attempt[c], MaxRetries)
    /\ Goto(c, "recv")
    /\ hist' = [hist EXCEPT ![c] = Append(@, [paced |-> paced[c], outcome |-> Pending])]
    /\ paced' = [paced EXCEPT ![c] = FALSE]
    /\ lastDispatch' = IF SafeRate > 0 THEN now ELSE NoDispatch
    /\ UNCHANGED <<clientVars, now, attempt, resp, wait, wakeAt, result, calls,
                   plainOnly, nAdjusted, declared>>

\* Do, the loop is over: the retries are exhausted
Exhausted(c) ==
    /\ pc[c] = "loop"
    /\ ~LoopContinues(attempt[c], MaxRetries)
    /\ Goto(c, "done")
    /\ result' = [result EXCEPT ![c] = "retriesExhausted"]
    /\ UNCHANGED <<clientVars, now, attempt, resp, wait, wakeAt, calls, histVars>>

SetOutcome(h, o) == [h EXCEPT ![Len(h)].outcome = o]

\* mutant: a transport error is retried like a 429
RecvError_Retried(c) ==
    /\ pc[c] = "recv"
    /\ transport = "any"
    /\ Goto(c, "loop")
    /\ attempt' = [attempt EXCEPT ![c] = @ + 1]
    /\ hist' = [hist EXCEPT ![c] = SetOutcome(@, TransportError)]
    /\ UNCHANGED <<clientVars, now, resp, wait, wakeAt, result, calls,
                   paced, lastDispatch, plainOnly, nAdjusted, declared>>

\* rl.Client.Do(req) returns an error, as it does when the context of req is
\* done: Do returns it
RecvError(c) ==
    /\ pc[c] = "recv"
    /\ transport # "throttling" \/ ctxDone[c]
    /\ Goto(c, "done")
    /\ result' = [result EXCEPT ![c] = "transportError"]
    /\ hist' = [hist EXCEPT ![c] = SetOutcome(@, TransportError)]
    /\ UNCHANGED <<clientVars, now, attempt, resp, wait, wakeAt, calls,
                   paced, lastDispatch, plainOnly, nAdjusted, declared>>

\* a response without rate-limit headers that is not a 429
Plain(r) ==
    /\ r.XLimit = NoHeader /\ r.XRemaining = NoHeader /\ r.XReset = NoHeader
    /\ r.StatusCode # StatusTooManyRequests

\* rl.Client.Do(req) returns a response
RecvResponse(c) ==
    /\ pc[c] = "recv"
    /\ ~ctxDone[c]
    /\ \E r \in Answers(transport) :
        /\ resp' = [resp EXCEPT ![c] = r]
        /\ hist' = [hist EXCEPT ![c] = SetOutcome(@, r.StatusCode)]
        /\ plainOnly' = (plainOnly /\ Plain(r))
        /\ nAdjusted' = IF plainOnly /\ Plain(r) THEN nAdjusted ELSE 0
    /\ Goto(c, "updLock")
    /\ UNCHANGED <<clientVars, now, attempt, wait, wakeAt, result, calls,
                   paced, lastDispatch, declared>>

\* updateRateLimitTracking
UpdLock(c) ==
    /\ pc[c] = "updLock"
    /\ Lock(c, "updBody")

UpdBody(c) ==
    /\ pc[c] = "updBody"
    /\ LET t == Tracked(resp[c], Limit, Remaining, ResetTime, AutoRateMode, SafeRate)
       IN  /\ Limit' = t.Limit
           /\ Remaining' = t.Remaining
           /\ ResetTime' = t.ResetTime
           /\ AutoRateMode' = t.AutoRateMode
    /\ resp' = [resp EXCEPT ![c] = Ingested(@)]
    /\ declared' = [declared EXCEPT ![c] = FoundHeader(resp[c])]
    /\ mu' = NoOne
    /\ Goto(c, "adjLock")
    /\ UNCHANGED <<transport, MaxRetries, DynamicRate, SafeRate, LastRequest, now,
                   attempt, wait, wakeAt, result, calls,
                   hist, paced, lastDispatch, plainOnly, nAdjusted>>

\* adjustDynamicRate(resp.StatusCode == 429)
AdjLock(c) ==
    /\ pc[c] = "adjLock"
    /\ Lock(c, "adjBody")

AdjBody(c) ==
    /\ pc[c] = "adjBody"
    /\ LET hit429 == Throttled(resp[c].StatusCode)
           a == Adjusted(hit429, DynamicRate, SafeRate, AutoRateMode)
       IN  /\ DynamicRate' = a.DynamicRate
           /\ SafeRate' = a.SafeRate
           /\ AutoRateMode' = a.AutoRateMode
           /\ IF hit429 THEN Goto(c, "gwLock") ELSE Goto(c, "lrLock")
    /\ nAdjusted' = IF plainOnly THEN nAdjusted + 1 ELSE 0
    /\ declared' = [declared EXCEPT ![c] = FALSE]
    /\ mu' = NoOne
    /\ UNCHANGED <<transport, MaxRetries, Limit, Remaining, ResetTime, LastRequest, now,
                   attempt, resp, wait, wakeAt, result, calls,
                   hist, paced, lastDispatch, plainOnly>>

\* Do, a status other than 429: rl.LastRequest = time.Now(); return resp, nil
LrLock(c) ==
    /\ pc[c] = "lrLock"
    /\ Lock(c, "lrBody")

LrBody(c) ==
    /\ pc[c] = "lrBody"
    /\ LastRequest' = now
    /\ mu' = NoOne
    /\ Goto(c, "done")
    /\ result' = [result EXCEPT ![c] = "response"]
    /\ resp' = [resp EXCEPT ![c] = NoResp]
    /\ UNCHANGED <<transport, MaxRetries, Limit, Remaining, ResetTime, AutoRateMode,
                   DynamicRate, SafeRate, now, attempt, wait, wakeAt, calls, histVars>>

\* Do, a 429: wait := rl.getWaitTime(resp, attempt); time.Sleep(wait)
GwLock(c) ==
    /\ pc[c] = "gwLock"
    /\ Lock(c, "gwBody")

GwBody(c) ==
    /\ pc[c] = "gwBody"
    /\ LET w == WaitTime(resp[c], attempt[c], SafeRate, now)
       IN  /\ wait' = [wait EXCEPT ![c] = w]
           /\ wakeAt' = [wakeAt EXCEPT ![c] = now + w]
    /\ mu' = NoOne
    /\ resp' = [resp EXCEPT ![c] = NoResp]
    /\ Goto(c, "boSleep")
    /\ UNCHANGED <<transport, MaxRetries, Limit, Remaining, ResetTime, AutoRateMode,
                   DynamicRate, SafeRate, LastRequest, now, attempt, result, calls, histVars>>

\* the sleep of the 429 branch ends: attempt++
BoWake(c) ==
    /\ pc[c] = "boSleep"
    /\ now >= wakeAt[c]
    /\ attempt' = [attempt EXCEPT ![c] = @ + 1]
    /\ wakeAt' = [wakeAt EXCEPT ![c] = 0]
    /\ wait' = [wait EXCEPT ![c] = 0]
    /\ Goto(c, "loop")
    /\ UNCHANGED <<clientVars, now, resp, result, calls, histVars>>

\* Do has returned; the caller takes the result and is free to call again
Return(c) ==
    /\ pc[c] = "done"
    /\ Goto(c, "idle")
    /\ attempt' = [attempt EXCEPT ![c] = 0]
    /\ result' = [result EXCEPT ![c] = "none"]
    /\ hist' = [hist EXCEPT ![c] = <<>>]
    /\ paced' = [paced EXCEPT ![c] = FALSE]
    /\ UNCHANGED <<clientVars, now, resp, wait, wakeAt, calls,
                   lastDispatch, plainOnly, nAdjusted, declared>>

\* the steps of a caller inside Do
InDo(c) ==
    \/ AdwLock(c) \/ AdwBody(c) \/ AdwWake(c) \/ AdwStore(c)
    \/ GateLock(c) \/ GateBody(c) \/ GateRead(c) \/ GateWake(c)
    \/ Dispatch(c) \/ Exhausted(c) \/ RecvError(c) \/ RecvResponse(c)
    \/ UpdLock(c) \/ UpdBody(c) \/ AdjLock(c) \/ AdjBody(c)
    \/ LrLock(c) \/ LrBody(c) \/ GwLock(c) \/ GwBody(c) \/ BoWake(c)
    \/ Return(c)

\* concurrent callers
Next ==
    \/ Tick
    \/ \E c \in Callers : StartDo(c) \/ InDo(c)

Spec == Init /\ [][Next]_vars

\* one caller, one call after the other
NextSeq ==
    \/ Tick
    \/ StartDoSeq(1)
    \/ InDo(1)

SpecSeq == Init /\ [][NextSeq]_vars

\* the deadline of caller c's requests passes, or the caller cancels them
CtxDone(c) ==
    /\ ~ctxDone[c]
    /\ ctxDone' = [ctxDone EXCEPT ![c] = TRUE]
    /\ UNCHANGED <<clientVars, now, callVars, histVars, mainVars, waitNanos, limitVars>>

\* one caller whose requests carry a context that can become done
NextCtx ==
    \/ Tick
    \/ StartDoSeq(1)
    \/ InDo(1)
    \/ CtxDone(1)

SpecCtx == Init /\ [][NextCtx]_vars

\* a caller is asleep
Asleep(c) == pc[c] \in {"adwSleep", "gateSleep", "boSleep"} /\ now < wakeAt[c]

\* time passes for as long as a sleep has to end
TickAsleep ==
    /\ \A c \in Callers : Waiting(c)
    /\ \E c \in Callers : Asleep(c)
    /\ now' = now + 1
    /\ UNCHANGED <<clientVars, callVars, histVars, ctxDone, mainVars, waitNanos, limitVars>>

\* concurrent callers; the clock runs until every sleep has ended
NextLive ==
    \/ TickAsleep
    \/ \E c \in Callers : StartDo(c) \/ InDo(c)

\* every sleep ends, every goroutine inside Do is scheduled, every transport
\* send returns
Fairness ==
    /\ WF_vars(TickAsleep)
    /\ \A c \in Callers : WF_vars(InDo(c))

\* a fresh client whose transport is the server that says little
InitLive ==
    /\ transport = "short"
    /\ Fresh

SpecLive == InitLive /\ [][NextLive]_vars /\ Fairness


\* ------------------------------------------- the helpers on their own inputs
\* values of one rate-limit header: absent, integers, and values that
\* strconv.Atoi rejects (the headers are not trimmed)
HeaderValues == {NoHeader, <<"3">>, <<"0">>, <<"x">>, <<" ", "3">>}

HeaderCombos ==
    [XLimit : HeaderValues, XRemaining : HeaderValues, XReset : HeaderValues]

\* values of the Retry-After header of a 429
RetryAfterValues ==
    {NoHeader, <<"3">>, <<" ", "2", " ">>, <<"0">>, <<"-", "1">>, <<"@", "1">>, <<"x">>}

\* the dispatches of a call that is at attempt index att, all answered 429
ThrottledSoFar(att, last) ==
    [i \in 1..(att + 1) |->
        [paced |-> i = 1, outcome |-> IF i = att + 1 THEN last ELSE StatusTooManyRequests]]

\* a client in any state of its rate fields, and caller 1 inside Do at the
\* body of updateRateLimitTracking or of getWaitTime with any response
InitFn ==
    /\ transport = "any"
    /\ MaxRetries = MaxAttemptIndex
    /\ mu = 1
    /\ Limit \in {0, 5} /\ Remaining \in {0, 4} /\ ResetTime \in {ZeroTime, Unix(1)}
    /\ AutoRateMode \in BOOLEAN
    /\ SafeRate \in {0, 2}
    /\ DynamicRate = IF SafeRate > 0 THEN SafeRate ELSE 1
    /\ now = 0
    /\ LastRequest = now
    /\ wait = [c \in Callers |-> 0]
    /\ wakeAt = [c \in Callers |-> 0]
    /\ result = [c \in Callers |-> "none"]
    /\ calls = 1
    /\ paced = [c \in Callers |-> FALSE]
    /\ lastDispatch = NoDispatch
    /\ plainOnly = FALSE /\ nAdjusted = 0
    /\ declared = [c \in Callers |-> FALSE]
    /\ ctxDone = [c \in Callers |-> FALSE]
    /\ MainNotStarted
    /\ waitNanos = [c \in Callers |-> Duration(0)]
    /\ \/ /\ pc = [c \in Callers |-> IF c = 1 THEN "updBody" ELSE "idle"]
          /\ attempt = [c \in Callers |-> 0]
          /\ \E st \in {200, StatusTooManyRequests}, h \in HeaderCombos :
               /\ resp = [c \in Callers |->
                            IF c = 1 THEN Response(st, h, NoHeader) ELSE NoResp]
               /\ hist = [c \in Callers |->
                            IF c = 1 THEN ThrottledSoFar(0, st) ELSE <<>>]
       \/ /\ pc = [c \in Callers |-> IF c = 1 THEN "gwBody" ELSE "idle"]
          /\ \E att \in 0..MaxAttemptIndex, ra \in RetryAfterValues :
               /\ attempt = [c \in Callers |-> IF c = 1 THEN att ELSE 0]
               /\ resp = [c \in Callers |->
                            IF c = 1 THEN [NoResp EXCEPT !.StatusCode = StatusTooManyRequests,
                                                         !.RetryAfter = ra]
                            ELSE NoResp]
               /\ hist = [c \in Callers |->
                            IF c = 1 THEN ThrottledSoFar(att, StatusTooManyRequests)
                            ELSE <<>>]

\* the helper runs
NextFn ==
    \/ UpdBody(1)
    \/ GwBody(1)

SpecFn == InitFn /\ [][NextFn]_vars

\* ------------------------------- getWaitTime at the width of time.Duration
\* a client that never saw a rate-limit header, with any MaxRetries up to
\* MaxShift, and caller 1 inside Do at the body of getWaitTime with a 429
\* without Retry-After, at any attempt index of the loop
InitWide ==
    /\ transport = "any"
    /\ MaxRetries \in 0..MaxShift
    /\ mu = 1
    /\ Limit = 0 /\ Remaining = 0 /\ ResetTime = ZeroTime
    /\ AutoRateMode \in BOOLEAN
    /\ DynamicRate = 1 /\ SafeRate = 0
    /\ now = 0
    /\ LastRequest = now
    /\ wait = [c \in Callers |-> 0]
    /\ wakeAt = [c \in Callers |-> 0]
    /\ result = [c \in Callers |-> "none"]
    /\ calls = 1
    /\ paced = [c \in Callers |-> FALSE]
    /\ lastDispatch = NoDispatch
    /\ plainOnly = FALSE /\ nAdjusted = 0
    /\ declared = [c \in Callers |-> FALSE]
    /\ ctxDone = [c \in Callers |-> FALSE]
    /\ MainNotStarted
    /\ waitNanos = [c \in Callers |-> Duration(0)]
    /\ pc = [c \in Callers |-> IF c = 1 THEN "gwBody" ELSE "idle"]
    /\ \E att \in 0..MaxRetries :
         /\ attempt = [c \in Callers |-> IF c = 1 THEN att ELSE 0]
         /\ hist = [c \in Callers |->
                      IF c = 1 THEN ThrottledSoFar(att, StatusTooManyRequests)
                      ELSE <<>>]
    /\ resp = [c \in Callers |->
                 IF c = 1 THEN [NoResp EXCEPT !.StatusCode = StatusTooManyRequests]
                 ELSE NoResp]

\* Do, a 429 without Retry-After while SafeRate is 0:
\* wait := rl.getWaitTime(resp, attempt); time.Sleep(wait)
GwExponential(c) ==
    /\ pc[c] = "gwBody"
    /\ resp[c].RetryAfter = NoHeader
    /\ SafeRate = 0
    /\ LET d == WaitNanos(attempt[c])
       IN  /\ waitNanos' = [waitNanos EXCEPT ![c] = d]
           /\ wait' = [wait EXCEPT ![c] = SleepTicks(d)]
           /\ wakeAt' = [wakeAt EXCEPT ![c] = now + SleepTicks(d)]
    /\ mu' = NoOne
    /\ resp' = [resp EXCEPT ![c] = NoResp]
    /\ pc' = [pc EXCEPT ![c] = "boSleep"]
    /\ UNCHANGED <<transport, MaxRetries, Limit, Remaining, ResetTime, AutoRateMode,
                   DynamicRate, SafeRate, LastRequest, now, attempt, result, calls,
                   histVars, ctxDone, mainVars, limitVars>>

NextWide == GwExponential(1)

SpecWide == InitWide /\ [][NextWide]_vars


\* --------------------------------------------- main.go: doRequestWithRetry
\* what doSingleRequest returns: the status (0 without a response) and
\* whether err is non-nil (building or sending the request failed, or
\* reading the body of the response failed)
SingleResults ==
    { [Status |-> 200, Err |-> FALSE], [Status |-> 200, Err |-> TRUE],
      [Status |-> 500, Err |-> FALSE], [Status |-> 404, Err |-> FALSE],
      [Status |-> 0, Err |-> TRUE] }

\* doRequestWithRetry: err == nil && status == 200
Succeeded(o) == ~o.Err /\ o.Status = 200

\* the client of Do is not used by main.go
InitMain ==
    /\ Init
    /\ transport = "any" /\ MaxRetries = MaxRetriesBound

MainGoto(label) ==
    /\ mainPc' = label
    /\ UNCHANGED <<clientVars, callVars, histVars, ctxDone, waitNanos, limitVars>>

\* main calls doRequestWithRetry(urlRequest, token, maxAttempts)
MainStart ==
    /\ mainPc = "idle" /\ mainResult = "none"
    /\ MainGoto("loop")
    /\ mainAttempt' = 1
    /\ errors' = <<>>
    /\ UNCHANGED <<now, mainResult>>

\* for attempt <= attempts: applyRateLimit(url), with no rate limit
\* configured for the URL, returns at once
MainApplyRateLimit ==
    /\ mainPc = "loop"
    /\ rateLimits = <<>>
    /\ mainAttempt <= maxAttempts
    /\ MainGoto("single")
    /\ UNCHANGED <<now, mainAttempt, errors, mainResult>>

\* the loop is over: every attempt failed
MainAllFailed ==
    /\ mainPc = "loop"
    /\ ~(mainAttempt <= maxAttempts)
    /\ MainGoto("done")
    /\ mainResult' = "allFailed"
    /\ UNCHANGED <<now, mainAttempt, errors>>

\* doSingleRequest returns a 200 without error: the body is returned
MainSucceeds ==
    /\ mainPc = "single"
    /\ \E o \in SingleResults : Succeeded(o)
    /\ MainGoto("done")
    /\ mainResult' = "body"
    /\ UNCHANGED <<now, mainAttempt, errors>>

\* doSingleRequest returns anything else: the error is recorded
MainRecordsError ==
    /\ mainPc = "single"
    /\ \E o \in SingleResults :
         /\ ~Succeeded(o)
         /\ errors' = Append(errors, [Attempt |-> mainAttempt, Status |-> o.Status,
                                      Err |-> o.Err])
    /\ MainGoto("sleep")
    /\ UNCHANGED <<now, mainAttempt, mainResult>>

\* time.Sleep(2 * time.Second); attempt++
MainSleep ==
    /\ mainPc = "sleep"
    /\ now' = now + 2 * Second
    /\ mainAttempt' = mainAttempt + 1
    /\ MainGoto("loop")
    /\ UNCHANGED <<errors, mainResult>>

NextMain ==
    \/ MainStart
    \/ MainApplyRateLimit \/ MainAllFailed
    \/ MainSucceeds \/ MainRecordsError
    \/ MainSleep

SpecMain == InitMain /\ [][NextMain]_vars

\* ------------------------------------------------ main.go: applyRateLimit
\* the VALUE and TYPE of a RATE_LIMIT group of the .env
ValueTexts == {<<"0">>, <<"1">>, <<"2">>, <<"x">>, <<"2", "x">>, <<"-", "1">>}
LimitTypes == {"seconds", "minutes"}

\* loadRateLimitsFromEnv: the limit a group with URL, VALUE and TYPE loads;
\* its ResetTime is time.Now()
Loaded(value, type) ==
    [Value |-> SscanfInt(value), Type |-> type, Count |-> 0, Age |-> 0]

\* the map literal of applyRateLimit, indexed by rl.Type: a Type that is not
\* a key gives the zero Duration
WindowOf(type) ==
    IF type = "seconds" THEN 1 * Second
    ELSE IF type = "minutes" THEN 1 * Minute
    ELSE 0

\* now.After(rl.ResetTime.Add(window)), in the branch of the limit's Type
Expired(rl) == rl.Type \in {"seconds", "minutes"} /\ rl.Age > WindowOf(rl.Type)

\* the limit after the automatic reset of applyRateLimit
AfterReset(rl) == IF Expired(rl) THEN [rl EXCEPT !.Count = 0, !.Age = 0] ELSE rl

\* the program with one limit loaded, before any request
InitLimit ==
    /\ transport = "any"
    /\ MaxRetries = MaxRetriesBound
    /\ mu = NoOne
    /\ Limit = 0 /\ Remaining = 0 /\ ResetTime = ZeroTime
    /\ AutoRateMode = FALSE
    /\ DynamicRate = 1 /\ SafeRate = 0
    /\ now = 0
    /\ LastRequest = now - 1 * Hour
    /\ pc = [c \in Callers |-> "idle"]
    /\ attempt = [c \in Callers |-> 0]
    /\ resp = [c \in Callers |-> NoResp]
    /\ wait = [c \in Callers |-> 0]
    /\ wakeAt = [c \in Callers |-> 0]
    /\ result = [c \in Callers |-> "none"]
    /\ calls = 0
    /\ hist = [c \in Callers |-> <<>>]
    /\ paced = [c \in Callers |-> FALSE]
    /\ lastDispatch = NoDispatch
    /\ plainOnly = TRUE /\ nAdjusted = 0
    /\ declared = [c \in Callers |-> FALSE]
    /\ ctxDone = [c \in Callers |-> FALSE]
    /\ waitNanos = [c \in Callers |-> Duration(0)]
    /\ mainPc = "idle" /\ mainAttempt = 0
    /\ errors = <<>> /\ mainResult = "none"
    /\ \E value \in ValueTexts, type \in LimitTypes :
         rateLimits = <<Loaded(value, type)>>
    /\ applyPc = "idle" /\ sleepLeft = 0

\* a step of applyRateLimit: nothing but the limit changes
LimitStep ==
    UNCHANGED <<clientVars, now, callVars, histVars, ctxDone, mainVars, waitNanos>>

\* doRequestWithRetry or doSingleRequest calls applyRateLimit(url); the URL
\* has the prefix rl.URL
ApplyCall ==
    /\ applyPc = "idle"
    /\ rateLimits # <<>>
    /\ applyPc' = "look"
    /\ UNCHANGED <<rateLimits, sleepLeft>>
    /\ LimitStep

\* applyRateLimit from rl.mu.Lock() on: the reset, then either the unlock
\* and the start of time.Sleep(waitDuration), or rl.Count++, the unlock and
\* the return
ApplyLook ==
    /\ applyPc = "look"
    /\ LET rl == AfterReset(rateLimits[1])
       IN  IF rl.Count >= rl.Value
           THEN /\ rateLimits' = [rateLimits EXCEPT ![1] = rl]
                /\ sleepLeft' = WindowOf(rl.Type) - rl.Age
                /\ applyPc' = "sleep"
           ELSE /\ rateLimits' = [rateLimits EXCEPT ![1] = [rl EXCEPT !.Count = @ + 1]]
                /\ sleepLeft' = 0
                /\ applyPc' = "idle"
    /\ LimitStep

\* time.Sleep is over: the recursive call applyRateLimit(requestURL)
ApplyWake ==
    /\ applyPc = "sleep"
    /\ sleepLeft <= 0
    /\ applyPc' = "look"
    /\ sleepLeft' = 0
    /\ UNCHANGED rateLimits
    /\ LimitStep

\* a tick of the clock, at any point of the program
ApplyTick ==
    /\ rateLimits # <<>>
    /\ rateLimits' =
           [rateLimits EXCEPT ![1].Age =
               IF @ > WindowOf(rateLimits[1].Type) THEN @ ELSE @ + 1]
    /\ sleepLeft' = IF applyPc = "sleep" /\ sleepLeft > 0 THEN sleepLeft - 1 ELSE sleepLeft
    /\ UNCHANGED applyPc
    /\ LimitStep

NextLimit == ApplyCall \/ ApplyLook \/ ApplyWake \/ ApplyTick

\* the program runs on and the clock advances
FairLimit ==
    /\ WF_vars(ApplyLook) /\ WF_vars(ApplyWake) /\ WF_vars(ApplyTick)

SpecLimit == InitLimit /\ [][NextLimit]_vars /\ FairLimit


\* ------------------------------------------------------------------ claims
Outcomes(c) == [i \in 1..Len(hist[c]) |-> hist[c][i].outcome]
AllThrottled(c) == \A i \in 1..Len(hist[c]) : hist[c][i].outcome = StatusTooManyRequests

\* C1: against a transport that answers every dispatch with a 429 without
\* Retry-After, a call of Do makes exactly MaxRetries + 1 dispatches and then
\* returns the retries-exhausted error without a response; there is never a
\* dispatch number MaxRetries + 2.
C1_ExactlyMaxRetriesPlusOne ==
    \A c \in Callers :
        /\ Len(hist[c]) <= MaxRetries + 1
        /\ (transport = "throttling" /\ pc[c] = "done") =>
               /\ result[c] = "retriesExhausted"
               /\ Len(hist[c]) = MaxRetries + 1
               /\ AllThrottled(c)
               /\ resp[c] = NoResp

C1_Witness ==
    \E c \in Callers :
        /\ transport = "throttling" /\ MaxRetries = 1
        /\ pc[c] = "done" /\ result[c] = "retriesExhausted"
        /\ Len(hist[c]) = 2

\* C2: a dispatch that ends in a transport error ends the call at once with
\* that error: the failed dispatch is the call's last one, on the first
\* attempt as well as on a retry after 429 responses.
C2_TransportErrorEndsCall ==
    \A c \in Callers :
        /\ \A i \in 1..Len(hist[c]) :
               hist[c][i].outcome = TransportError =>
                   /\ i = Len(hist[c])
                   /\ pc[c] = "done"
                   /\ result[c] = "transportError"
        /\ result[c] = "transportError" =>
               Len(hist[c]) >= 1 /\ hist[c][Len(hist[c])].outcome = TransportError

C2_Witness ==
    \E c \in Callers :
        /\ pc[c] = "done" /\ result[c] = "transportError"
        /\ Outcomes(c) = <<StatusTooManyRequests, TransportError>>

\* C3: the response Do returns is the first of the call's dispatches whose
\* status is not 429, every earlier dispatch of the call was answered 429,
\* and a status other than 429 (200 or 500) is never followed by another
\* dispatch or a sleep of that call.
C3_FirstNonThrottledReturned ==
    \A c \in Callers :
        /\ result[c] = "response" =>
               /\ Len(hist[c]) >= 1
               /\ hist[c][Len(hist[c])].outcome \in {200, 500}
               /\ \A i \in 1..(Len(hist[c]) - 1) :
                      hist[c][i].outcome = StatusTooManyRequests
        /\ \A i \in 1..Len(hist[c]) :
               hist[c][i].outcome \in {200, 500} =>
                   /\ i = Len(hist[c])
                   /\ pc[c] \in {"updLock", "updBody", "adjLock", "adjBody",
                                 "lrLock", "lrBody", "done"}
                   /\ (pc[c] = "done" => result[c] = "response")

C3_Witness ==
    \E c \in Callers :
        /\ pc[c] = "done" /\ result[c] = "response"
        /\ Outcomes(c) = <<StatusTooManyRequests, 500>>


\* C4: in every reachable state, SafeRate > 0 implies that AutoRateMode is
\* false and that DynamicRate equals SafeRate, the state right after the
\* adjustment that locks the safe rate included.
C4_LockedImpliesNotDiscovering ==
    SafeRate > 0 => (AutoRateMode = FALSE /\ DynamicRate = SafeRate)

\* the adjustment of caller c for a 429 takes place in this step
Adjusts429(c) ==
    /\ pc[c] = "adjBody" /\ pc'[c] # "adjBody"
    /\ resp[c].StatusCode = StatusTooManyRequests

\* C5: the safe rate is a one-way latch: the adjustment for a 429 made while
\* AutoRateMode is true and SafeRate is 0 sets SafeRate to
\* max(1, DynamicRate - 1), and once SafeRate is positive no step changes it.
C5_SafeRateLatch ==
    [][ /\ SafeRate > 0 => SafeRate' = SafeRate
        /\ \A c \in Callers :
               (Adjusts429(c) /\ AutoRateMode /\ SafeRate = 0) =>
                   SafeRate' = IF DynamicRate - 1 > 1 THEN DynamicRate - 1 ELSE 1 ]_vars

\* the safe rate was locked at 2, above the floor, and a call made after the
\* lock has had its response processed
C5_Witness ==
    /\ SafeRate = 2
    /\ calls = MaxSeqCalls
    /\ pc[1] = "done" /\ result[1] = "response" /\ Len(hist[1]) = 1

\* C6: from a fresh client, as long as every response so far carried no
\* rate-limit header and none was a 429, DynamicRate is 1 plus the number of
\* responses processed, the first response included.
C6_DynamicRateGrowsByOne ==
    plainOnly => DynamicRate = 1 + nAdjusted

C6_Witness ==
    plainOnly /\ nAdjusted = 3 /\ DynamicRate = 4

\* C7: applyDynamicWait runs before every dispatch of Do, retries included:
\* each dispatch of a call is preceded by a run of the pacer since the call's
\* previous dispatch.
C7_PacerBeforeEveryDispatch ==
    \A c \in Callers : \A i \in 1..Len(hist[c]) : hist[c][i].paced

\* C8: once SafeRate is locked at r, two consecutive dispatches made through
\* the client, by any callers, retries included, are at least 1/r second
\* apart.
C8_LockedSpacing ==
    [][ \A c \in Callers :
            (pc[c] = "loop" /\ pc'[c] = "recv" /\ lastDispatch # NoDispatch /\ SafeRate > 0)
                => now - lastDispatch >= Second \div SafeRate ]_vars

\* C9: no caller sleeps or waits for the transport while it holds rl.mu.
C9_NoSleepHoldingLock ==
    \A c \in Callers :
        pc[c] \in {"adwSleep", "gateSleep", "boSleep", "recv"} => mu # c

\* C10: no caller reads a field of the rate state without holding rl.mu
\* while another caller is writing that field.
C10_NoUnlockedReadDuringWrite ==
    \A c \in Callers :
        (pc[c] = "gateRead" /\ mu # c) =>
            ~ \E d \in Callers \ {c} :
                  pc[d] = "updBody" /\ mu = d /\ AtoiOk(resp[d].XReset)

\* the reset-window check of caller c's call is decided in this step
GateDecides(c) == pc[c] = "gateBody" /\ pc'[c] # "gateBody"

\* C11: a call of Do that reaches the reset-window gate while Remaining is 0,
\* ResetTime is set and the clock is before ResetTime is blocked by the gate
\* before its first dispatch, and sleeps max(1 s, ResetTime - now); this
\* holds for every value of Limit, 0 included.
C11_GateBlocksExhaustedWindow ==
    [][ \A c \in Callers :
            /\ (GateDecides(c) /\ Remaining = 0 /\ ResetTime # ZeroTime /\ now < ResetTime)
                   => pc'[c] = "gateRead"
            /\ (pc[c] = "gateRead" /\ pc'[c] = "gateSleep")
                   => wait'[c] = IF ResetTime - now > 1 * Second
                                 THEN ResetTime - now ELSE 1 * Second ]_vars

\* the server has declared its limit and window, and no response without
\* rate-limit headers has been ingested since; the safe rate is not locked
DeclaredPacing ==
    /\ SafeRate = 0 /\ AutoRateMode = FALSE
    /\ Limit > 0 /\ ResetTime # ZeroTime

\* applyDynamicWait of caller c's call decides in this step whether to sleep
PacerDecides(c) == pc[c] = "adwBody" /\ pc'[c] # "adwBody"

\* C12: after a response that carried the limit, remaining and reset headers
\* while SafeRate is 0, and until a response without headers arrives, the
\* pacer does not make a Do call wait for the 1/DynamicRate minimum interval.
C12_DeclaredWindowOnly ==
    [][ \A c \in Callers :
            (PacerDecides(c) /\ DeclaredPacing) => pc'[c] # "adwSleep" ]_vars

\* updateRateLimitTracking of caller c's response takes place in this step
Observes(c) == pc[c] = "updBody" /\ pc'[c] # "updBody"

\* header value h is an integer
IsInteger(h) == h # NoHeader /\ AtoiOk(h)

\* C13: updateRateLimitTracking handles the three headers independently: a
\* header that is an integer updates its own field, an absent or malformed
\* header leaves its field unchanged, whatever the other two headers are;
\* afterwards AutoRateMode is false if at least one header was an integer,
\* true if none was and SafeRate is 0, unchanged if none was and SafeRate is
\* positive.
C13_HeadersIndependent ==
    [][ \A c \in Callers : Observes(c) =>
          LET r == resp[c]
              some == IsInteger(r.XLimit) \/ IsInteger(r.XRemaining) \/ IsInteger(r.XReset)
          IN  /\ IsInteger(r.XLimit) => Limit' = AtoiVal(r.XLimit)
              /\ ~IsInteger(r.XLimit) => Limit' = Limit
              /\ IsInteger(r.XRemaining) => Remaining' = AtoiVal(r.XRemaining)
              /\ ~IsInteger(r.XRemaining) => Remaining' = Remaining
              /\ IsInteger(r.XReset) => ResetTime' = Unix(AtoiVal(r.XReset))
              /\ ~IsInteger(r.XReset) => ResetTime' = ResetTime
              /\ some => AutoRateMode' = FALSE
              /\ (~some /\ SafeRate = 0) => AutoRateMode' = TRUE
              /\ (~some /\ SafeRate > 0) => AutoRateMode' = AutoRateMode
              /\ SafeRate' = SafeRate /\ DynamicRate' = DynamicRate ]_vars

\* a response with a malformed limit header and integer remaining and reset
\* headers has been ingested over Limit 5: Limit is kept, the others are set
C13_Witness ==
    /\ pc[1] = "adjLock" /\ hist[1][1].outcome = 200
    /\ Limit = 5 /\ Remaining = 3 /\ ResetTime = Unix(3)
    /\ AutoRateMode = FALSE /\ SafeRate = 2

\* getWaitTime of caller c's call returns in this step
ComputesWait(c) == pc[c] = "gwBody" /\ pc'[c] = "boSleep"

\* C14: getWaitTime with a Retry-After header that holds a positive integer n
\* returns n seconds, whatever the attempt index, AutoRateMode and SafeRate
\* are; with an integer n <= 0 it returns BaseBackoff.
C14_RetryAfterSeconds ==
    [][ \A c \in Callers : ComputesWait(c) =>
          LET ra == TrimSpace(resp[c].RetryAfter)
          IN  IsInteger(ra) =>
                  wait'[c] = IF AtoiVal(ra) > 0 THEN AtoiVal(ra) * Second ELSE BaseBackoff
      ]_vars

\* Retry-After: 3 was honoured at the last attempt index with a locked safe
\* rate and AutoRateMode still true
C14_Witness ==
    /\ pc[1] = "boSleep" /\ wait[1] = 3 * Second
    /\ attempt[1] = MaxAttemptIndex /\ SafeRate > 0 /\ AutoRateMode

\* C15: getWaitTime without a Retry-After header returns
\* min(BaseBackoff * 2^attempt, 2 minutes) when SafeRate is 0, for every
\* attempt index from 0 to MaxRetries (8 s at attempt index 3), and exactly
\* 1 second when SafeRate is positive.
C15_ExponentialOrOneSecond ==
    [][ \A c \in Callers : (ComputesWait(c) /\ resp[c].RetryAfter = NoHeader) =>
          /\ SafeRate = 0 =>
                 /\ wait'[c] = IF BaseBackoff * 2^attempt[c] < 2 * Minute
                               THEN BaseBackoff * 2^attempt[c] ELSE 2 * Minute
                 /\ attempt[c] = 3 => wait'[c] = 8 * Second
          /\ SafeRate > 0 => wait'[c] = 1 * Second ]_vars

\* the backoff of the last attempt index was cut to 2 minutes
C15_Witness ==
    /\ pc[1] = "boSleep" /\ SafeRate = 0
    /\ attempt[1] = MaxAttemptIndex /\ wait[1] = 2 * Minute

\* C16: doRequestWithRetry makes at most 5 attempts and repeats an attempt
\* only after a response with status 500: any other failure is recorded in
\* the error list and is the last attempt of the routine.
C16_RetryOnlyOn500 ==
    /\ Len(errors) <= maxAttempts
    /\ mainResult = "body" => Len(errors) < maxAttempts
    /\ \A i \in 1..Len(errors) :
           /\ errors[i].Attempt = i
           /\ errors[i].Status # 500 =>
                  (i = Len(errors) /\ mainPc \notin {"single"})

\* In a run of one caller, at the call of getWaitTime: the 429 being handled
\* arrived with SafeRate = 0 and its ingestion left AutoRateMode true.
\* (adjustDynamicRate, which ran in between, clears AutoRateMode for a 429
\* that arrives with SafeRate > 0, leaves it false for one that carried a
\* rate-limit header, and leaves it true in the remaining case.)
ArrivedDiscovering == AutoRateMode

\* C17: in Do, for a 429 without Retry-After that arrives while the client is
\* still discovering (SafeRate 0 on arrival, AutoRateMode true after the
\* ingestion of its headers), the sleep before the next attempt is
\* BaseBackoff * 2^attempt, at most 2 minutes: 1 s, 2 s, 4 s, ...
C17_DiscoveringBackoffExponential ==
    [][ (ComputesWait(1) /\ resp[1].RetryAfter = NoHeader /\ ArrivedDiscovering) =>
            wait'[1] = IF BaseBackoff * 2^attempt[1] < 2 * Minute
                       THEN BaseBackoff * 2^attempt[1] ELSE 2 * Minute ]_vars

\* adjustDynamicRate runs in this step for a response of caller c in which
\* updateRateLimitTracking found a rate-limit header
AdjustsDeclared(c) == pc[c] = "adjBody" /\ pc'[c] # "adjBody" /\ declared[c]

\* C18: with concurrent callers and SafeRate 0, adjustDynamicRate for a
\* response that carried at least one valid rate-limit header changes neither
\* DynamicRate nor SafeRate: AutoRateMode, set to false by the ingestion of
\* that response, is still false when its adjustment runs, whatever responses
\* of other callers are processed in between.
C18_DeclaredAdjustIsNoOp ==
    [][ \A c \in Callers : (AdjustsDeclared(c) /\ SafeRate = 0) =>
            /\ AutoRateMode = FALSE
            /\ DynamicRate' = DynamicRate /\ SafeRate' = SafeRate ]_vars

\* caller c starts a sleep in this step
StartsSleep(c) ==
    /\ pc[c] \notin {"adwSleep", "gateSleep", "boSleep"}
    /\ pc'[c] \in {"adwSleep", "gateSleep", "boSleep"}

\* a request of caller c is answered in this step
Answered(c) == pc[c] = "recv" /\ pc'[c] = "updLock"

\* C19: Do checks the context of the request before the pacer sleep, before
\* the reset-window sleep and before every backoff sleep, and gives up when
\* it is done: a call whose context is done starts no sleep and gets no
\* request answered.
C19_NoSleepAfterCtxDone ==
    [][ \A c \in Callers : ctxDone[c] => ~(StartsSleep(c) \/ Answered(c)) ]_vars

\* labels at which a caller waits for rl.mu
LockLabels == {"adwLock", "gateLock", "updLock", "adjLock", "lrLock", "gwLock"}

\* C20: with concurrent callers, if every transport send returns and every
\* sleep ends, every call of Do returns (a response, the transport's error
\* or the retries-exhausted error), and a caller that waits for rl.mu gets
\* it.
C20_EveryCallReturns ==
    \A c \in Callers :
        /\ (pc[c] # "idle") ~> (pc[c] = "done")
        /\ (pc[c] \in LockLabels) ~> (mu = c)

\* a caller waits for the mutex while the other sleeps in applyDynamicWait
\* holding it
C20_Witness ==
    \E c, d \in Callers :
        /\ pc[c] = "adwSleep" /\ mu = c /\ now < wakeAt[c]
        /\ pc[d] = "updLock"

\* getWaitTime has returned from its exponential branch to caller c
ComputedExponential(c) == pc[c] = "boSleep" /\ attempt[c] <= MaxRetries

\* C21: for every MaxRetries and every attempt index 0..MaxRetries, the wait
\* the exponential branch of getWaitTime computes in 64-bit signed arithmetic
\* is strictly positive and at most two minutes.
C21_ExponentialWaitBounded ==
    \A c \in Callers :
        ComputedExponential(c) =>
            /\ Positive(waitNanos[c])
            /\ ~Greater(waitNanos[c], TwoMinutes)

\* C22: for every configured limit, whatever Value the .env gave it, each
\* call of applyRateLimit on a matching URL eventually returns, and Count
\* never exceeds Value.
C22_LimitReturnsAndHolds ==
    /\ [](\A i \in 1..Len(rateLimits) : rateLimits[i].Count <= rateLimits[i].Value)
    /\ ((applyPc # "idle") ~> (applyPc = "idle"))

====
